---- MODULE Spec2Model ----
(***************************************************************************)
(* Model of get_missing_imgs_between_folders.py: the Tk handlers, the      *)
(* corner-colour matcher (is_corner_color, check_corners_color) and the    *)
(* resolver (find_and_copy_missing_images) acting on a filesystem.         *)
(*                                                                         *)
(* Strings are sequences of one-character strings, so that splitext,       *)
(* lower, lstrip and the hex parse are computed character by character.    *)
(* A path is a sequence of names; the empty path is the empty string.      *)
(***************************************************************************)
EXTENDS Integers, Sequences, FiniteSets, TLC

VARIABLES
    fs,                         \* the filesystem: path -> node
    source_dir_entry,           \* Entry widgets (line 137, 143, 149, 158)
    upscaled_dir_entry,
    missing_dir_entry,
    color_entry,
    check_var,                  \* IntVar of the check box (line 154)
    pc,                         \* position of the Tk main loop / the handler
    source_dir,                 \* locals of find_and_copy_missing_images
    upscaled_dir,
    missing_dir,
    check_black_corners,
    target_color,
    target_color_rgb,
    upscaled_files_base_names,
    pending,                    \* entries of os.listdir(source_dir) not yet iterated
    copied_files_count,
    inputs,                     \* observation: what the entries held when the handler started
    listing,                    \* observation: what os.listdir(source_dir) returned
    fs0,                        \* observation: the filesystem when the handler started
    copyLog,                    \* observation: the shutil.copy calls that returned
    failedCopy,                 \* observation: the shutil.copy calls that raised
    evaluated,                  \* observation: entries an iteration of the loop took up
    rejected,                   \* observation: entries check_corners_color returned False for
    listed,                     \* observation: the directories os.listdir was called on
    shown,                      \* observation: the message box of the run
    raised,                     \* observation: the exception that left the handler
    prev,                       \* observation: summary of the run before this one
    m_image, m_target, m_threshold, m_result   \* the matcher called on its own

vars == <<fs, source_dir_entry, upscaled_dir_entry, missing_dir_entry, color_entry,
          check_var, pc, source_dir, upscaled_dir, missing_dir, check_black_corners,
          target_color, target_color_rgb, upscaled_files_base_names, pending, copied_files_count,
          inputs, listing, fs0, copyLog, failedCopy, evaluated, rejected, listed, shown,
          raised, prev,
          m_image, m_target, m_threshold, m_result>>

uiVars == <<source_dir_entry, upscaled_dir_entry, missing_dir_entry, color_entry, check_var>>

localVars == <<source_dir, upscaled_dir, missing_dir, check_black_corners,
               target_color, target_color_rgb, upscaled_files_base_names, pending, copied_files_count>>

obsVars == <<inputs, listing, fs0, copyLog, failedCopy, evaluated, rejected, listed,
            shown, raised>>

matcherVars == <<m_image, m_target, m_threshold, m_result>>

----------------------------------------------------------------------------
(* Bounds of the model *)

\* most entries a directory holds in the initial filesystem
MaxEntries == 2

\* largest width and height of an image handed to the matcher on its own
MaxDim == 2

\* default of the threshold parameter
DefaultThreshold == 10

----------------------------------------------------------------------------
(* Strings *)

UpperChars == <<"A","B","C","D","E","F","G","H","I","J","K","L","M",
                "N","O","P","Q","R","S","T","U","V","W","X","Y","Z">>

LowerChars == <<"a","b","c","d","e","f","g","h","i","j","k","l","m",
                "n","o","p","q","r","s","t","u","v","w","x","y","z">>

\* str.lower() on one character
LowerChar(c) ==
    IF \E i \in 1..26 : UpperChars[i] = c
    THEN LowerChars[CHOOSE i \in 1..26 : UpperChars[i] = c]
    ELSE c

\* str.lower()
lower(s) == [i \in 1..Len(s) |-> LowerChar(s[i])]

\* s[a:b] of Python, a and b counted from 0, clipped to the string
Slice(s, a, b) ==
    LET lo == IF a < Len(s) THEN a ELSE Len(s)
        hi == IF b < Len(s) THEN b ELSE Len(s)
    IN  IF hi <= lo THEN <<>> ELSE SubSeq(s, lo + 1, hi)

\* s.lstrip('#')
RECURSIVE lstripHash(_)
lstripHash(s) ==
    IF s # <<>> /\ Head(s) = "#" THEN lstripHash(Tail(s)) ELSE s

\* s.rfind('.') counted from 1, 0 when there is none
rfindDot(s) ==
    IF \E i \in 1..Len(s) : s[i] = "."
    THEN CHOOSE i \in 1..Len(s) : s[i] = "." /\ \A j \in (i+1)..Len(s) : s[j] # "."
    ELSE 0

\* os.path.splitext on a file name (no separator in it): the extension starts at
\* the last dot, unless only dots precede that dot
splitext(f) ==
    LET d == rfindDot(f)
    IN  IF d > 0 /\ \E i \in 1..(d - 1) : f[i] # "."
        THEN <<SubSeq(f, 1, d - 1), SubSeq(f, d, Len(f))>>
        ELSE <<f, <<>>>>

HexChars == <<"0","1","2","3","4","5","6","7","8","9","a","b","c","d","e","f">>

IsHex(c) == \E i \in 1..16 : HexChars[i] = LowerChar(c)

HexVal(c) == (CHOOSE i \in 1..16 : HexChars[i] = LowerChar(c)) - 1

\* int(s, 16) on a slice of at most two characters: surrounding blanks are
\* stripped, one sign is allowed, and at least one digit must remain
int16(s) ==
    LET lead  == IF s # <<>> /\ s[1] = " " THEN Tail(s) ELSE s
        core  == IF lead # <<>> /\ lead[Len(lead)] = " "
                 THEN SubSeq(lead, 1, Len(lead) - 1) ELSE lead
        neg   == core # <<>> /\ core[1] = "-"
        digs  == IF core # <<>> /\ core[1] \in {"+", "-"} THEN Tail(core) ELSE core
        good  == digs # <<>> /\ \A i \in 1..Len(digs) : IsHex(digs[i])
        mag   == IF Len(digs) = 2 THEN 16 * HexVal(digs[1]) + HexVal(digs[2])
                 ELSE HexVal(digs[1])
    IN  IF ~good THEN [ok |-> FALSE, v |-> 0]
        ELSE [ok |-> TRUE, v |-> IF neg THEN 0 - mag ELSE mag]

\* line 76: tuple(int(target_color.lstrip('#')[i:i+2], 16) for i in (0, 2, 4))
ParseColor(text) ==
    LET h == lstripHash(text)
        r == int16(Slice(h, 0, 2))
        g == int16(Slice(h, 2, 4))
        b == int16(Slice(h, 4, 6))
    IN  IF r.ok /\ g.ok /\ b.ok
        THEN [ok |-> TRUE, rgb |-> <<r.v, g.v, b.v>>]
        ELSE [ok |-> FALSE, rgb |-> <<>>]

----------------------------------------------------------------------------
(* Images, as PIL hands them to check_corners_color *)

\* What pixels[x, y] returns: a tuple of bands (RGB, RGBA), or a bare integer
\* (a palette index of mode P, a grey level of mode L)
Tup(v) == [tuple |-> TRUE, v |-> v]

Num(n) == [tuple |-> FALSE, v |-> <<n>>]

Modes == {"RGB", "RGBA", "P", "L"}

\* the palette of the mode-P images: index -> colour
Palette == <<<<0, 0, 0>>, <<255, 255, 255>>>>

PixelsOf(mode) ==
    CASE mode = "RGB"  -> {Tup(<<0, 0, 0>>), Tup(<<10, 10, 10>>), Tup(<<11, 0, 0>>),
                           Tup(<<0, 11, 0>>), Tup(<<0, 0, 11>>)}
      [] mode = "RGBA" -> {Tup(<<0, 0, 0, 0>>), Tup(<<0, 0, 11, 255>>)}
      [] mode = "P"    -> {Num(0), Num(1)}
      [] mode = "L"    -> {Num(0), Num(200)}

\* the four corner coordinates of line 53
Corners(w, h) == <<<<0, 0>>, <<0, h - 1>>, <<w - 1, 0>>, <<w - 1, h - 1>>>>

\* the corner positions of a w x h image (none when it has no pixel)
CornerSet(w, h) == IF w = 0 \/ h = 0 THEN {} ELSE {Corners(w, h)[k] : k \in 1..4}

\* The images up to dim x dim. Only corner pixels are kept: no other pixel is read.
ImagesUpTo(dim) ==
    UNION {UNION {{[mode |-> mode, w |-> w, h |-> h, px |-> px] :
                        px \in [CornerSet(w, h) -> PixelsOf(mode)]} :
                    mode \in Modes} :
             w \in 0..dim, h \in 0..dim}

NoImage == [mode |-> "none", w |-> 0, h |-> 0, px |-> <<>>]

\* the content of a file: an image PIL decodes, or bytes it does not
ImageFile(img) == [decodable |-> TRUE, img |-> img]

Junk == [decodable |-> FALSE, img |-> NoImage]

NoData == [decodable |-> FALSE, img |-> [mode |-> "dir", w |-> 0, h |-> 0, px |-> <<>>]]

\* a node of the filesystem: a file with its bytes and its read-only bit, or a directory
FileNode(data) == [kind |-> "file", data |-> data, readonly |-> FALSE]

ReadOnlyFileNode(data) == [kind |-> "file", data |-> data, readonly |-> TRUE]

DirNode == [kind |-> "dir", data |-> NoData, readonly |-> FALSE]

\* pixels[x, y] of PIL's PixelAccess: a negative index counts from the far edge,
\* and an index outside the image raises IndexError
PixelAt(img, xy) ==
    LET x == IF xy[1] < 0 THEN img.w + xy[1] ELSE xy[1]
        y == IF xy[2] < 0 THEN img.h + xy[2] ELSE xy[2]
    IN  IF x >= 0 /\ x < img.w /\ y >= 0 /\ y < img.h
        THEN [ok |-> TRUE, p |-> img.px[<<x, y>>]]
        ELSE [ok |-> FALSE, p |-> Num(0)]

Abs(n) == IF n < 0 THEN 0 - n ELSE n

\* abs(pixel[i] - target_color[i]) <= threshold
ChannelClose(a, b, threshold) == Abs(a - b) <= threshold

\* One term of the generator of line 45, i counted from 1: "pass" when the term
\* is True, "False" when it is False, or the exception pixel[i] raises
ChannelTerm(pixel, target, threshold, i) ==
    IF ~pixel.tuple THEN "TypeError"
    ELSE IF i > Len(pixel.v) THEN "IndexError"
    ELSE IF ChannelClose(pixel.v[i], target[i], threshold) THEN "pass"
    ELSE "False"

\* lines 43-45: all(...) stops at the first term that is not True
is_corner_color(pixel, target, threshold) ==
    LET bad == {i \in 1..3 : ChannelTerm(pixel, target, threshold, i) # "pass"}
    IN  IF bad = {} THEN "True"
        ELSE ChannelTerm(pixel, target, threshold,
                         CHOOSE i \in bad : \A j \in bad : i <= j)

\* Image.open(image_path) succeeds on a file whose bytes decode
CanOpen(filesys, image_path) ==
    /\ image_path \in DOMAIN filesys
    /\ filesys[image_path].kind = "file"
    /\ filesys[image_path].data.decodable

\* lines 47-57: the four corners are read first (line 53), then compared in turn
\* (line 54); whatever is raised on the way is caught and gives False (line 55-57)
check_corners_color(filesys, image_path, target, threshold) ==
    IF ~CanOpen(filesys, image_path) THEN FALSE
    ELSE LET img == filesys[image_path].data.img
             at  == [k \in 1..4 |-> PixelAt(img, Corners(img.w, img.h)[k])]
             res == [k \in 1..4 |-> is_corner_color(at[k].p, target, threshold)]
             bad == {k \in 1..4 : res[k] # "True"}
         IN  IF \E k \in 1..4 : ~at[k].ok THEN FALSE
             ELSE IF bad = {} THEN TRUE
             ELSE FALSE

----------------------------------------------------------------------------
(* The filesystem *)

EmptyPath == <<>>

SrcPath == <<<<"S">>>>

UpsPath == <<<<"U">>>>

MisPath == <<<<"M">>>>

\* os.path.join(directory, filename)
join(directory, filename) == Append(directory, filename)

\* os.path.basename
basename(path) == path[Len(path)]

\* os.path.dirname
dirname(path) == SubSeq(path, 1, Len(path) - 1)

\* os.path.exists
exists(filesys, path) == path \in DOMAIN filesys

\* os.path.isdir
isdir(filesys, path) == path \in DOMAIN filesys /\ filesys[path].kind = "dir"

\* wrong listing: every name below the directory, at any depth
listdir_Recursive(filesys, directory) ==
    {basename(q) : q \in {r \in DOMAIN filesys :
        Len(r) > Len(directory) /\ SubSeq(r, 1, Len(directory)) = directory}}

\* lines 39-41, os.listdir: the names of the direct entries, files and directories
listdir(filesys, directory) ==
    {basename(q) : q \in {r \in DOMAIN filesys :
        Len(r) = Len(directory) + 1 /\ dirname(r) = directory}}

\* the direct entries of a directory with what each holds
Entries(filesys, directory) ==
    [n \in {basename(r) : r \in {q \in DOMAIN filesys :
                                    Len(q) > 0 /\ dirname(q) = directory}}
        |-> filesys[join(directory, n)]]

\* os.makedirs(path, exist_ok=True): creates the path and the ancestors that are
\* missing; the empty path and a path through a file raise
makedirs(filesys, path) ==
    LET prefixes == {SubSeq(path, 1, k) : k \in 1..Len(path)}
        fresh    == {q \in prefixes : q \notin DOMAIN filesys}
    IN  IF path = EmptyPath
        THEN [ok |-> FALSE, exc |-> "FileNotFoundError", fs |-> filesys]
        ELSE IF \E q \in prefixes : q \in DOMAIN filesys /\ filesys[q].kind # "dir"
        THEN [ok |-> FALSE, exc |-> "FileExistsError", fs |-> filesys]
        ELSE [ok |-> TRUE, exc |-> "none",
              fs |-> [q \in fresh |-> DirNode] @@ filesys]

\* wrong copy: the source is moved, not copied
shutil_copy_Move(filesys, src, dst) ==
    LET to == IF isdir(filesys, dst) THEN join(dst, basename(src)) ELSE dst
    IN  IF src \notin DOMAIN filesys \/ src = to \/ filesys[src].kind = "dir"
           \/ isdir(filesys, to) \/ ~isdir(filesys, dirname(to))
           \/ (to \in DOMAIN filesys /\ filesys[to].readonly)
        THEN [ok |-> FALSE, exc |-> "OSError", fs |-> filesys]
        ELSE [ok |-> TRUE, exc |-> "none",
              fs |-> [q \in (DOMAIN filesys \cup {to}) \ {src} |->
                        IF q = to THEN filesys[src] ELSE filesys[q]]]

\* shutil.copy(src, dst): into dst when dst is a directory; the bytes are written
\* (copyfile) and the permission bits follow (copymode). The same file, a missing
\* or directory source, a destination that is read-only or has no directory raise
shutil_copy(filesys, src, dst) ==
    LET to == IF isdir(filesys, dst) THEN join(dst, basename(src)) ELSE dst
    IN  IF src \in DOMAIN filesys /\ src = to
        THEN [ok |-> FALSE, exc |-> "SameFileError", fs |-> filesys]
        ELSE IF src \notin DOMAIN filesys
        THEN [ok |-> FALSE, exc |-> "FileNotFoundError", fs |-> filesys]
        ELSE IF filesys[src].kind = "dir" \/ isdir(filesys, to)
        THEN [ok |-> FALSE, exc |-> "IsADirectoryError", fs |-> filesys]
        ELSE IF ~isdir(filesys, dirname(to))
        THEN [ok |-> FALSE, exc |-> "FileNotFoundError", fs |-> filesys]
        ELSE IF to \in DOMAIN filesys /\ filesys[to].readonly
        THEN [ok |-> FALSE, exc |-> "PermissionError", fs |-> filesys]
        ELSE [ok |-> TRUE, exc |-> "none",
              fs |-> [q \in {to} |-> filesys[src]] @@ filesys]

----------------------------------------------------------------------------
(* The initial filesystems *)

ImgBlack == ImageFile([mode |-> "RGB", w |-> 2, h |-> 2,
                       px |-> [c \in CornerSet(2, 2) |-> Tup(<<0, 0, 0>>)]])

ImgWhite == ImageFile([mode |-> "RGB", w |-> 1, h |-> 1,
                       px |-> [c \in CornerSet(1, 1) |-> Tup(<<255, 255, 255>>)]])

\* the file inside the subdirectory "c"
InnerName == <<"n", ".", "p">>

\* what the source directory may hold: name -> node
SourceCatalog ==
    [n \in {<<"a", ".", "p">>, <<"A", ".", "j">>, <<"b", ".", "p">>, <<"c">>} |->
        CASE n = <<"a", ".", "p">> -> FileNode(ImgBlack)
          [] n = <<"A", ".", "j">> -> ReadOnlyFileNode(ImgWhite)
          [] n = <<"b", ".", "p">> -> FileNode(Junk)
          [] n = <<"c">>           -> DirNode]

\* what the upscaled directory may hold
UpscaledNames == {<<"A", ".", "t">>, <<"c", ".", "p">>}

UpTo(S, k) == {T \in SUBSET S : Cardinality(T) <= k}

InitialFs(src, ups) ==
    LET dom == {SrcPath, UpsPath}
               \cup {join(SrcPath, n) : n \in src}
               \cup {join(join(SrcPath, n), InnerName) : n \in {m \in src : SourceCatalog[m].kind = "dir"}}
               \cup {join(UpsPath, n) : n \in ups}
    IN  [q \in dom |->
            IF Len(q) = 1 THEN DirNode
            ELSE IF Len(q) = 3 THEN FileNode(ImgBlack)
            ELSE IF q[1] = SrcPath[1] THEN SourceCatalog[q[2]]
            ELSE FileNode(Junk)]

----------------------------------------------------------------------------
(* The window *)

Black == <<"#", "0", "0", "0", "0", "0", "0">>

White == <<"#", "f", "f", "f", "f", "f", "f">>

\* what askdirectory() returns for each entry; the empty path when cancelled
DialogChoices(entry) ==
    CASE entry = "source"   -> {EmptyPath, SrcPath}
      [] entry = "upscaled" -> {EmptyPath, UpsPath}
      [] entry = "missing"  -> {EmptyPath, MisPath, SrcPath, UpsPath}

\* what colorchooser.askcolor()[1] returns; nothing when cancelled
ChooserColors == {<<>>, Black, White}

\* what the user types into the colour entry
TypedColors == {<<"#", "f", "f", "f">>}

NoRun == [ran |-> FALSE]

NoMessage == [kind |-> "none", n |-> 0]

NoInputs == [source |-> EmptyPath, upscaled |-> EmptyPath, missing |-> EmptyPath,
             check |-> 0, color |-> <<>>]

\* the handler is not running: its locals do not exist
NoLocals ==
    /\ source_dir' = EmptyPath
    /\ upscaled_dir' = EmptyPath
    /\ missing_dir' = EmptyPath
    /\ check_black_corners' = 0
    /\ target_color' = <<>>
    /\ target_color_rgb' = <<>>
    /\ upscaled_files_base_names' = {}
    /\ pending' = {}
    /\ copied_files_count' = 0

\* nothing is remembered of earlier runs
Forget ==
    /\ inputs' = NoInputs
    /\ listing' = {}
    /\ fs0' = <<>>
    /\ copyLog' = <<>>
    /\ failedCopy' = {}
    /\ evaluated' = {}
    /\ rejected' = {}
    /\ listed' = {}
    /\ shown' = NoMessage
    /\ raised' = "none"
    /\ prev' = NoRun

\* a run has been made and is remembered
HasRun == shown # NoMessage \/ raised # "none"

\* the copied entries of the run, by name
CopiedNames == {basename(copyLog[i].src) : i \in 1..Len(copyLog)}

\* what is kept of a run when the next one starts
Summary ==
    [ran       |-> TRUE,
     inputs    |-> inputs,
     srcBefore |-> Entries(fs0, inputs.source),
     upsBefore |-> Entries(fs0, inputs.upscaled),
     copied    |-> CopiedNames,
     copies    |-> Len(copyLog),
     shown     |-> shown,
     raised    |-> raised,
     failed    |-> failedCopy,
     misAfter  |-> Entries(fs, inputs.missing)]

\* the window as lines 129-164 build it, before any handler has run
InitWindow ==
    /\ source_dir_entry = EmptyPath
    /\ upscaled_dir_entry = EmptyPath
    /\ missing_dir_entry = EmptyPath
    /\ color_entry = Black                                   \* line 160
    /\ check_var = 0
    /\ pc = "idle"
    /\ source_dir = EmptyPath /\ upscaled_dir = EmptyPath /\ missing_dir = EmptyPath
    /\ check_black_corners = 0 /\ target_color = <<>> /\ target_color_rgb = <<>>
    /\ upscaled_files_base_names = {} /\ pending = {} /\ copied_files_count = 0
    /\ inputs = NoInputs /\ listing = {} /\ fs0 = <<>> /\ copyLog = <<>>
    /\ failedCopy = {} /\ evaluated = {} /\ rejected = {} /\ listed = {}
    /\ shown = NoMessage /\ raised = "none" /\ prev = NoRun

Init ==
    /\ fs \in {InitialFs(src, ups) : src \in UpTo(DOMAIN SourceCatalog, MaxEntries),
                                     ups \in UpTo(UpscaledNames, MaxEntries)}
    /\ InitWindow
    /\ m_image = Junk /\ m_target = <<0, 0, 0>> /\ m_threshold = DefaultThreshold
    /\ m_result = "none"

----------------------------------------------------------------------------
(* The handlers of the window *)

\* lines 110-115, behind the three "..." buttons (lines 139, 145, 151)
select_directory(entry) ==
    /\ pc = "idle"
    /\ \E directory \in DialogChoices(entry) :
         IF directory # EmptyPath
         THEN /\ source_dir_entry' = IF entry = "source" THEN directory ELSE source_dir_entry
              /\ upscaled_dir_entry' = IF entry = "upscaled" THEN directory ELSE upscaled_dir_entry
              /\ missing_dir_entry' = IF entry = "missing" THEN directory ELSE missing_dir_entry
              /\ Forget
         ELSE UNCHANGED <<source_dir_entry, upscaled_dir_entry, missing_dir_entry, obsVars, prev>>
    /\ UNCHANGED <<fs, color_entry, check_var, pc, localVars, matcherVars>>

\* lines 117-122
choose_color ==
    /\ pc = "idle"
    /\ \E color_code \in ChooserColors :
         color_entry' = IF color_code # <<>> THEN color_code ELSE color_entry
    /\ prev' = NoRun
    /\ UNCHANGED <<fs, source_dir_entry, upscaled_dir_entry, missing_dir_entry, check_var,
                   pc, localVars, obsVars, matcherVars>>

\* line 158: the colour entry is an editable Entry
edit_color ==
    /\ pc = "idle"
    /\ \E text \in TypedColors : color_entry' = text
    /\ prev' = NoRun
    /\ UNCHANGED <<fs, source_dir_entry, upscaled_dir_entry, missing_dir_entry, check_var,
                   pc, localVars, obsVars, matcherVars>>

\* line 155: the check box flips its IntVar
toggle_check ==
    /\ pc = "idle"
    /\ check_var' = 1 - check_var
    /\ Forget
    /\ UNCHANGED <<fs, source_dir_entry, upscaled_dir_entry, missing_dir_entry, color_entry,
                   pc, localVars, matcherVars>>

\* lines 124-126: root.destroy() ends the main loop and destroys the widgets
on_escape ==
    /\ pc = "idle"
    /\ pc' = "closed"
    /\ source_dir_entry' = EmptyPath
    /\ upscaled_dir_entry' = EmptyPath
    /\ missing_dir_entry' = EmptyPath
    /\ color_entry' = <<>>
    /\ check_var' = 0
    /\ Forget
    /\ UNCHANGED <<fs, localVars, matcherVars>>

----------------------------------------------------------------------------
(* find_and_copy_missing_images, line by line *)

\* wrong validation: one valid directory is enough
ValidDirs_Either(filesys, src, ups) == isdir(filesys, src) \/ isdir(filesys, ups)

\* line 65
ValidDirs(filesys, src, ups) == isdir(filesys, src) /\ isdir(filesys, ups)

\* lines 60-67: read the entries and validate the two directories
Validate ==
    /\ pc = "idle"
    /\ prev' = IF HasRun THEN Summary ELSE NoRun
    /\ inputs' = [source |-> source_dir_entry, upscaled |-> upscaled_dir_entry,
                  missing |-> missing_dir_entry, check |-> check_var, color |-> color_entry]
    /\ fs0' = fs
    /\ listing' = {} /\ copyLog' = <<>> /\ failedCopy' = {} /\ evaluated' = {}
    /\ rejected' = {} /\ listed' = {}
    /\ raised' = "none"
    /\ IF ValidDirs(fs, source_dir_entry, upscaled_dir_entry)
       THEN /\ source_dir' = source_dir_entry
            /\ upscaled_dir' = upscaled_dir_entry
            /\ missing_dir' = missing_dir_entry
            /\ shown' = NoMessage
            /\ pc' = "ensure_missing"
            /\ UNCHANGED <<check_black_corners, target_color, target_color_rgb,
                           upscaled_files_base_names, pending, copied_files_count>>
       ELSE /\ shown' = [kind |-> "error", n |-> 0]            \* line 66
            /\ pc' = "idle"                                    \* line 67
            /\ NoLocals
    /\ UNCHANGED <<fs, uiVars, matcherVars>>

\* lines 69-71
EnsureMissingDir ==
    /\ pc = "ensure_missing"
    /\ LET made == makedirs(fs, missing_dir)
       IN  IF exists(fs, missing_dir)
           THEN /\ pc' = "config"
                /\ UNCHANGED <<fs, raised, localVars>>
           ELSE IF made.ok
           THEN /\ fs' = made.fs
                /\ pc' = "config"
                /\ UNCHANGED <<raised, localVars>>
           ELSE /\ raised' = made.exc
                /\ pc' = "idle"
                /\ NoLocals
                /\ UNCHANGED fs
    /\ UNCHANGED <<uiVars, inputs, listing, fs0, copyLog, failedCopy, evaluated, rejected,
                   listed, shown, prev, matcherVars>>

\* lines 74-76: the colour is parsed whether or not the check is enabled
ReadConfig ==
    /\ pc = "config"
    /\ LET parsed == ParseColor(color_entry)
       IN  IF parsed.ok
           THEN /\ check_black_corners' = check_var
                /\ target_color' = color_entry
                /\ target_color_rgb' = parsed.rgb
                /\ pc' = "collect"
                /\ UNCHANGED <<source_dir, upscaled_dir, missing_dir,
                               upscaled_files_base_names, pending, copied_files_count, raised>>
           ELSE /\ raised' = "ValueError"
                /\ pc' = "idle"
                /\ NoLocals
    /\ UNCHANGED <<fs, uiVars, inputs, listing, fs0, copyLog, failedCopy, evaluated, rejected,
                   listed, shown, prev, matcherVars>>

\* os.path.splitext(f)[0].lower() of lines 79 and 85-86
BaseNameLower(f) == lower(splitext(f)[1])

\* lines 79-81
CollectUpscaled ==
    /\ pc = "collect"
    /\ upscaled_files_base_names' = {BaseNameLower(f) : f \in listdir(fs, upscaled_dir)}
    /\ copied_files_count' = 0
    /\ listed' = listed \cup {upscaled_dir}
    /\ pc' = "list"
    /\ UNCHANGED <<fs, uiVars, source_dir, upscaled_dir, missing_dir, check_black_corners,
                   target_color, target_color_rgb, pending, inputs, listing, fs0, copyLog,
                   failedCopy, evaluated, rejected, shown, raised, prev, matcherVars>>

\* line 84: os.listdir(source_dir) is evaluated once, when the loop starts
ListSource ==
    /\ pc = "list"
    /\ pending' = listdir(fs, source_dir)
    /\ listing' = listdir(fs, source_dir)
    /\ listed' = listed \cup {source_dir}
    /\ pc' = "loop"
    /\ UNCHANGED <<fs, uiVars, source_dir, upscaled_dir, missing_dir, check_black_corners,
                   target_color, target_color_rgb, upscaled_files_base_names,
                   copied_files_count, inputs, fs0, copyLog, failedCopy, evaluated, rejected,
                   shown, raised, prev, matcherVars>>

\* wrong test: the check box is ignored and every candidate is checked
NeedsCheck_Always(flag) == TRUE

\* line 94
NeedsCheck(flag) == flag # 0

\* wrong counter: the count is not incremented for the first copy
NextCount_SkipFirst(count) == IF count = 0 THEN 0 ELSE count + 1

\* line 102
NextCount(count) == count + 1

\* lines 84-102, one iteration; os.listdir gives the names in arbitrary order
LoopStep ==
    /\ pc = "loop"
    /\ \E filename \in pending :
         LET base_name_lower == BaseNameLower(filename)
             source_path     == join(source_dir, filename)
             missing_path    == join(missing_dir, filename)
             copy            == shutil_copy(fs, source_path, missing_path)
         IN  \/ /\ base_name_lower \in upscaled_files_base_names         \* lines 89-90
                /\ pending' = pending \ {filename}
                /\ evaluated' = evaluated \cup {filename}
                /\ UNCHANGED <<fs, copied_files_count, rejected, copyLog, failedCopy,
                               raised, pc, source_dir, upscaled_dir, missing_dir,
                               check_black_corners, target_color, target_color_rgb,
                               upscaled_files_base_names>>
             \/ /\ base_name_lower \notin upscaled_files_base_names      \* lines 94-97
                /\ NeedsCheck(check_black_corners)
                /\ ~check_corners_color(fs, source_path, target_color_rgb, DefaultThreshold)
                /\ pending' = pending \ {filename}
                /\ evaluated' = evaluated \cup {filename}
                /\ rejected' = rejected \cup {filename}
                /\ UNCHANGED <<fs, copied_files_count, copyLog, failedCopy,
                               raised, pc, source_dir, upscaled_dir, missing_dir,
                               check_black_corners, target_color, target_color_rgb,
                               upscaled_files_base_names>>
             \/ /\ base_name_lower \notin upscaled_files_base_names      \* lines 100-102
                /\ NeedsCheck(check_black_corners) =>
                       check_corners_color(fs, source_path, target_color_rgb, DefaultThreshold)
                /\ copy.ok
                /\ fs' = copy.fs
                /\ copied_files_count' = NextCount(copied_files_count)
                /\ copyLog' = Append(copyLog, [src |-> source_path, dst |-> missing_path])
                /\ pending' = pending \ {filename}
                /\ evaluated' = evaluated \cup {filename}
                /\ UNCHANGED <<rejected, failedCopy, raised, pc, source_dir, upscaled_dir,
                               missing_dir, check_black_corners, target_color,
                               target_color_rgb, upscaled_files_base_names>>
             \/ /\ base_name_lower \notin upscaled_files_base_names      \* line 101 raises
                /\ NeedsCheck(check_black_corners) =>
                       check_corners_color(fs, source_path, target_color_rgb, DefaultThreshold)
                /\ ~copy.ok
                /\ raised' = copy.exc
                /\ evaluated' = evaluated \cup {filename}
                /\ failedCopy' = failedCopy \cup {[src |-> source_path, dst |-> missing_path]}
                /\ pc' = "idle"
                /\ NoLocals
                /\ UNCHANGED <<fs, rejected, copyLog>>
    /\ UNCHANGED <<uiVars, inputs, listing, fs0, listed, shown, prev, matcherVars>>

\* lines 105-108
MessageFor(count) ==
    IF count = 0 THEN [kind |-> "none_missing", n |-> 0]
    ELSE [kind |-> "flagged", n |-> count]

\* lines 104-108: the loop is over
Feedback ==
    /\ pc = "loop"
    /\ pending = {}
    /\ shown' = MessageFor(copied_files_count)
    /\ pc' = "idle"
    /\ NoLocals
    /\ UNCHANGED <<fs, uiVars, inputs, listing, fs0, copyLog, failedCopy, evaluated, rejected,
                   listed, raised, prev, matcherVars>>

Next ==
    \/ \E entry \in {"source", "upscaled", "missing"} : select_directory(entry)
    \/ choose_color
    \/ edit_color
    \/ toggle_check
    \/ on_escape
    \/ Validate
    \/ EnsureMissingDir
    \/ ReadConfig
    \/ CollectUpscaled
    \/ ListSource
    \/ LoopStep
    \/ Feedback

Spec == Init /\ [][Next]_vars

----------------------------------------------------------------------------
(* The matcher on its own: check_corners_color applied to one image file *)

MatcherPath == <<<<"i">>>>

MatcherFs(data) == [q \in {MatcherPath} |-> FileNode(data)]

MatcherTargets == {<<0, 0, 0>>, <<20, 20, 20>>}

MatcherThresholds == {0, DefaultThreshold}

InitMatcher ==
    /\ fs = InitialFs({}, {})
    /\ InitWindow
    /\ m_image \in {Junk} \cup {ImageFile(img) : img \in ImagesUpTo(MaxDim)}
    /\ m_target \in MatcherTargets
    /\ m_threshold \in MatcherThresholds
    /\ m_result = "none"

\* a call of check_corners_color (lines 47-57)
CallMatcher ==
    /\ m_result = "none"
    /\ m_result' = IF check_corners_color(MatcherFs(m_image), MatcherPath, m_target, m_threshold)
                   THEN "True" ELSE "False"
    /\ UNCHANGED <<fs, uiVars, pc, localVars, obsVars, prev, m_image, m_target, m_threshold>>

NextMatcher == CallMatcher

SpecMatcher == InitMatcher /\ [][NextMatcher]_vars

----------------------------------------------------------------------------
(* Vocabulary of the properties *)

\* a run has started and is still remembered
InRun == fs0 # <<>>

\* the run reached its summary message (lines 105-108)
Summarised == shown.kind \in {"none_missing", "flagged"}

\* the run is over and ended with its summary message
Completed == InRun /\ pc = "idle" /\ Summarised

\* the names of the direct entries of a directory
DirectNames(filesys, directory) ==
    {q[Len(q)] : q \in {r \in DOMAIN filesys :
        Len(r) = Len(directory) + 1 /\ SubSeq(r, 1, Len(directory)) = directory}}

\* the direct entries of a directory, names and contents
EntriesOf(filesys, directory) ==
    [n \in DirectNames(filesys, directory) |-> filesys[Append(directory, n)]]

\* path is the directory itself or lies inside it
Within(path, directory) ==
    Len(directory) <= Len(path) /\ SubSeq(path, 1, Len(directory)) = directory

\* the lower-cased stems of the upscaled directory's entries when the run started
UpscaledStems == {lower(splitext(u)[1]) : u \in DirectNames(fs0, inputs.upscaled)}

\* the corner check of the run's colour holds for source entry f
CornersOk(f) ==
    check_corners_color(fs0, Append(inputs.source, f), ParseColor(inputs.color).rgb,
                        DefaultThreshold)

----------------------------------------------------------------------------
(* C1 *)

\* C1: in a run that passed validation and ran to completion, a direct entry f of
\* source_dir is copied into missing_dir if and only if its lower-cased stem is not
\* among the lower-cased stems of upscaled_dir's entries and the corner check is
\* disabled or check_corners_color is true for f; and no entry whose stem equals an
\* upscaled entry's stem is ever copied, whatever the extensions.
C1_CopiedIffMissingAndMatching ==
    /\ Completed =>
         \A f \in DirectNames(fs0, inputs.source) :
            /\ f \in CopiedNames <=>
                  /\ lower(splitext(f)[1]) \notin UpscaledStems
                  /\ inputs.check = 0 \/ CornersOk(f)
            /\ f \in CopiedNames =>
                  /\ Append(inputs.missing, f) \in DOMAIN fs
                  /\ fs[Append(inputs.missing, f)] = fs0[Append(inputs.source, f)]
    /\ InRun =>
         \A i \in 1..Len(copyLog) :
            lower(splitext(basename(copyLog[i].src))[1]) \notin UpscaledStems

\* a completed run that copied one entry and skipped another whose stem matches an
\* upscaled entry of a different extension
C1_Witness ==
    /\ Completed
    /\ \E f, g \in DirectNames(fs0, inputs.source) :
         /\ f \in CopiedNames
         /\ g \notin CopiedNames
         /\ \E u \in DirectNames(fs0, inputs.upscaled) :
              /\ lower(splitext(g)[1]) = lower(splitext(u)[1])
              /\ splitext(g)[2] # splitext(u)[2]

----------------------------------------------------------------------------
(* C2 *)

\* the colour of a pixel: its first three bands, the palette entry of a mode-P
\* index, the grey level of mode L on each channel
ColourOf(img, xy) ==
    LET p == img.px[xy]
    IN  CASE img.mode \in {"RGB", "RGBA"} -> SubSeq(p.v, 1, 3)
          [] img.mode = "P" -> Palette[p.v[1] + 1]
          [] img.mode = "L" -> <<p.v[1], p.v[1], p.v[1]>>

\* C2: for every readable image, target colour and threshold, check_corners_color
\* is true if and only if each of the four corner pixels differs from the target by
\* at most the threshold on each of its first three channels.
C2_TrueIffAllCornersClose ==
    (m_result # "none" /\ m_image.decodable /\ m_image.img.w > 0 /\ m_image.img.h > 0) =>
        (m_result = "True" <=>
            \A xy \in CornerSet(m_image.img.w, m_image.img.h) : \A i \in 1..3 :
                Abs(ColourOf(m_image.img, xy)[i] - m_target[i]) <= m_threshold)

----------------------------------------------------------------------------
(* C3 *)

\* C3: with the corner check enabled, an entry that cannot be opened as an image is
\* rejected without an exception, is not copied, and every remaining entry is still
\* evaluated, so that the run ends with its summary message.
C3_UndecodableEntryDoesNotStopRun ==
    (/\ InRun /\ pc = "idle" /\ inputs.check = 1
     /\ \E f \in rejected : ~CanOpen(fs0, Append(inputs.source, f))) =>
        /\ \A f \in rejected : f \notin CopiedNames
        /\ evaluated = listing
        /\ Summarised

----------------------------------------------------------------------------
(* C4 *)

\* C4: when source_dir or upscaled_dir is not an existing directory, the run shows
\* the invalid-directory error and returns with the filesystem as it was: missing_dir
\* is not created, nothing is listed or copied, no summary is shown. So whatever a
\* run creates or copies, it does after the validation passed.
C4_InvalidDirectoryChangesNothing ==
    (InRun /\ ~(isdir(fs0, inputs.source) /\ isdir(fs0, inputs.upscaled))) =>
        /\ pc = "idle"
        /\ shown = [kind |-> "error", n |-> 0]
        /\ raised = "none"
        /\ fs = fs0
        /\ copyLog = <<>>
        /\ listed = {}

\* the error was shown for a valid source and an invalid upscaled directory, and
\* the missing directory named in the entry still does not exist
C4_Witness ==
    /\ InRun
    /\ shown.kind = "error"
    /\ isdir(fs0, inputs.source)
    /\ ~isdir(fs0, inputs.upscaled)
    /\ inputs.missing = MisPath
    /\ ~exists(fs, MisPath)

----------------------------------------------------------------------------
(* C5 *)

\* C5: after a run that ended with its summary, a second run with the same inputs
\* and the same contents of source_dir and upscaled_dir copies the same set of
\* files, gives the same count and message, and leaves missing_dir as it was after
\* the first run.
C5_SecondRunRepeatsFirst ==
    (/\ InRun /\ pc = "idle" /\ prev.ran
     /\ prev.shown.kind \in {"none_missing", "flagged"}
     /\ prev.inputs = inputs
     /\ prev.srcBefore = EntriesOf(fs0, inputs.source)
     /\ prev.upsBefore = EntriesOf(fs0, inputs.upscaled)) =>
        /\ prev.copied = CopiedNames
        /\ prev.copies = Len(copyLog)
        /\ prev.shown = shown
        /\ prev.misAfter = EntriesOf(fs, inputs.missing)

----------------------------------------------------------------------------
(* C6 *)

\* C6: only the direct entries of source_dir and upscaled_dir are enumerated: the
\* directories listed are these two, every name the loop iterates over is a direct
\* entry of source_dir, every copy reads a direct entry, the count never exceeds the
\* number of direct entries, and what lies inside a subdirectory of source_dir is
\* neither copied nor changed.
C6_OnlyDirectEntries ==
    InRun =>
        /\ listed \subseteq {inputs.source, inputs.upscaled}
        /\ \A n \in listing : Append(inputs.source, n) \in DOMAIN fs
        /\ upscaled_files_base_names \subseteq
              {lower(splitext(u)[1]) : u \in DirectNames(fs, inputs.upscaled)}
        /\ \A i \in 1..Len(copyLog) :
              /\ copyLog[i].src \in DOMAIN fs0
              /\ Len(copyLog[i].src) = Len(inputs.source) + 1
              /\ SubSeq(copyLog[i].src, 1, Len(inputs.source)) = inputs.source
        /\ Len(copyLog) <= Cardinality(DirectNames(fs0, inputs.source))
        /\ copied_files_count <= Cardinality(DirectNames(fs0, inputs.source))
        /\ \A q \in DOMAIN fs0 :
              (Len(q) > Len(inputs.source) + 1 /\ Within(q, inputs.source)) =>
                  /\ q \in DOMAIN fs
                  /\ fs[q] = fs0[q]
                  /\ \A i \in 1..Len(copyLog) : copyLog[i].src # q

\* a completed run over a source directory with a subdirectory that holds a file:
\* the subdirectory was taken up as one entry, and another entry was copied
C6_Witness ==
    /\ Completed
    /\ copyLog # <<>>
    /\ \E q \in DOMAIN fs0 :
         /\ Len(q) = Len(inputs.source) + 2
         /\ Within(q, inputs.source)
         /\ q[Len(q) - 1] \in evaluated

----------------------------------------------------------------------------
(* C7 *)

MissingApart ==
    /\ ~Within(inputs.missing, inputs.source)
    /\ ~Within(inputs.missing, inputs.upscaled)

----------------------------------------------------------------------------
(* C8 *)

\* C8: throughout the loop copied_files_count is the number of copies made so far;
\* a summary is shown only by a run that took up every listed entry; the
\* none-missing message is shown exactly when no copy was made, the flagged message
\* names the number of copies otherwise; an empty source_dir gives the none-missing
\* message.
C8_CountIsNumberOfCopies ==
    /\ pc \in {"list", "loop"} =>
          /\ copied_files_count = Len(copyLog)
          /\ Cardinality(CopiedNames) = Len(copyLog)
    /\ Summarised =>
          /\ pc = "idle"
          /\ raised = "none"
          /\ evaluated = listing
          /\ shown.kind = "none_missing" <=> Len(copyLog) = 0
          /\ shown.kind = "flagged" => shown.n = Len(copyLog)
    /\ (Completed /\ DirectNames(fs0, inputs.source) = {}) =>
          shown = [kind |-> "none_missing", n |-> 0]

\* a completed run that copied two entries and said so
C8_Witness ==
    /\ Completed
    /\ shown = [kind |-> "flagged", n |-> 2]
    /\ Len(copyLog) = 2

----------------------------------------------------------------------------
(* C9 *)

\* C9: a copy that fails affects its entry only: the loop goes on, every listed
\* entry is taken up, and the run ends with its summary message.
C9_FailedCopySkipsOneEntry ==
    (InRun /\ failedCopy # {}) =>
        \/ pc = "loop"
        \/ /\ pc = "idle"
           /\ evaluated = listing
           /\ Summarised

----------------------------------------------------------------------------
(* C10 *)

\* C10: with the corner check disabled, two runs over the same directories with the
\* same contents copy the same files, report the same count and both complete,
\* whatever the two colour strings are. (Runs a failed copy ended are left aside:
\* they are the matter of C9.)
C10_ColourIgnoredWhenCheckDisabled ==
    (/\ InRun /\ pc = "idle" /\ prev.ran
     /\ inputs.check = 0 /\ prev.inputs.check = 0
     /\ prev.inputs.source = inputs.source
     /\ prev.inputs.upscaled = inputs.upscaled
     /\ prev.inputs.missing = inputs.missing
     /\ isdir(fs0, inputs.source) /\ isdir(fs0, inputs.upscaled)
     /\ inputs.missing # EmptyPath
     /\ prev.srcBefore = EntriesOf(fs0, inputs.source)
     /\ prev.upsBefore = EntriesOf(fs0, inputs.upscaled)
     /\ failedCopy = {} /\ prev.failed = {}) =>
        /\ prev.copied = CopiedNames
        /\ prev.copies = Len(copyLog)
        /\ Summarised
        /\ prev.shown = shown

====
